---- MODULE Spec2Model ----
(***************************************************************************)
(* Wallet & transaction ledger of view_social.                             *)
(*                                                                         *)
(* The ledger part models the HTTP handlers create_transfer and            *)
(* set_wallet_pin (src/src/api/payment_handlers.rs) running as concurrent  *)
(* requests against the PostgreSQL wallet repository                       *)
(* (src/src/infrastructure/database/repositories/wallet.rs).  Every await  *)
(* on the database is one step; the code between two awaits runs inside    *)
(* the step of the await that precedes it.  The database is READ COMMITTED *)
(* PostgreSQL: a row lock taken by SELECT ... FOR UPDATE blocks other      *)
(* lockers and writers of the row until the transaction ends, writes of a  *)
(* transaction become visible at commit, and dropping a sqlx transaction   *)
(* without commit rolls it back.                                           *)
(*                                                                         *)
(* The same requests also run debit_balance of the wallet repository and   *)
(* the register handler (src/src/api/auth_handlers.rs), each under a       *)
(* specification of its own.                                               *)
(*                                                                         *)
(* The entity part models Wallet and Transaction of                        *)
(* src/src/domain/entities.rs as values the operations act on, with the    *)
(* repository's create_transaction and update_transaction.                 *)
(***************************************************************************)
EXTENDS Integers, Sequences, FiniteSets, TLC

\* Number of concurrent HTTP requests in flight.
NumProcs == 2

\* Largest balance the Wallet entity run lets credit() reach.
MaxBalance == 12

\* Longest description the Transaction entity run lets fail() build.
MaxTrackedLen == 560

\* desc.len() > 500 in Transaction::new.
MaxDescriptionLen == 500

Procs == 1..NumProcs

\* Users known to the identity subsystem; "carol" owns no wallet.
Users == {"alice", "bob", "carol"}

\* Wallet rows (Scenario A/B of the specification call them A and B).
WalletIds == {"A", "B"}

\* Option<T>: None is the empty tuple, Some(x) the one-element tuple.
None == <<>>

Some(x) == <<x>>

Unwrap(o) == o[1]

\* A missing wallet or user id.
NoId == "none"

\* wallets.user_id: the wallet a user owns, None when the user has none.
WalletOfUser(u) ==
  CASE u = "alice" -> "A"
    [] u = "bob" -> "B"
    [] OTHER -> NoId

Pin1234 == <<"1", "2", "3", "4">>

Pin0000 == <<"0", "0", "0", "0">>

PinShort == <<"1", "2">>

PinAlpha == <<"1", "2", "a", "4">>

AsciiDigits == {"0", "1", "2", "3", "4", "5", "6", "7", "8", "9"}

\* bcrypt::hash: a salted one-way digest; two hashes verify the same
\* candidates exactly when they come from the same plaintext.
BcryptHash(pin) == [alg |-> "bcrypt", digest |-> pin]

\* BcryptVerify accepting every candidate.
BcryptVerifyAlways(pin, hash) == TRUE

\* bcrypt::verify(pin, hash).
BcryptVerify(pin, hash) == hash.digest = pin

\* A PIN text of three characters and four bytes: "12" and a two-byte letter.
PinTwoByte == <<"1", "2", "e-acute">>

\* The bytes a character takes in UTF-8.
Utf8Len(c) == IF c = "e-acute" THEN 2 ELSE 1

RECURSIVE ByteLen(_)
\* String::len: the length of a text in bytes.
ByteLen(text) ==
  IF text = <<>> THEN 0 ELSE Utf8Len(Head(text)) + ByteLen(Tail(text))

\* PinError without the digit check of lines 652 and 693.
PinErrorLengthOnly(pin) ==
  IF ByteLen(pin) # 4 THEN "ValidationError" ELSE "Ok"

\* The two checks shared by Wallet::new and Wallet::set_pin.
PinError(pin) ==
  IF ByteLen(pin) # 4 THEN "ValidationError"
  ELSE IF ~(\A i \in 1..Len(pin) : pin[i] \in AsciiDigits) THEN "ValidationError"
  ELSE "Ok"

\* PostgresWalletRepository::wallet_to_domain: the status column as WalletStatus.
StatusToDomain(status_str) ==
  CASE status_str = "active" -> "Active"
    [] status_str = "suspended" -> "Suspended"
    [] status_str = "locked" -> "Locked"
    [] OTHER -> "Active"

\* The status_str match of PostgresWalletRepository::update.
StatusToColumn(status) ==
  CASE status = "Active" -> "active"
    [] status = "Suspended" -> "suspended"
    [] status = "Locked" -> "locked"

\* PostgresWalletRepository::wallet_to_domain: a row as a Wallet.
WalletToDomain(id, row) ==
  [id |-> id, balance |-> row.balance, status |-> StatusToDomain(row.status),
   pin_hash |-> row.pin_hash]

\* VerifyPin reporting a wallet without a PIN as a mismatch.
VerifyPinNoneIsMismatch(wallet, pin) ==
  IF wallet.pin_hash = None
  THEN [err |-> "Ok", val |-> FALSE]
  ELSE [err |-> "Ok", val |-> BcryptVerify(pin, Unwrap(wallet.pin_hash))]

\* Wallet::verify_pin: Err(ValidationError) when no PIN is set, else Ok(bool).
VerifyPin(wallet, pin) ==
  IF wallet.pin_hash = None
  THEN [err |-> "ValidationError", val |-> FALSE]
  ELSE [err |-> "Ok", val |-> BcryptVerify(pin, Unwrap(wallet.pin_hash))]

\* HasSufficientBalance answering true for every amount.
HasSufficientBalanceAlways(wallet, amount) == TRUE

\* Wallet::has_sufficient_balance.
HasSufficientBalance(wallet, amount) == wallet.balance >= amount

\* Decimal::from_str on the amount texts the requests carry.
DecimalFromStr(s) ==
  CASE s = "-3" -> [ok |-> TRUE, val |-> -3]
    [] s = "0" -> [ok |-> TRUE, val |-> 0]
    [] s = "3" -> [ok |-> TRUE, val |-> 3]
    [] s = "6" -> [ok |-> TRUE, val |-> 6]
    [] s = "15" -> [ok |-> TRUE, val |-> 15]
    [] OTHER -> [ok |-> FALSE, val |-> 0]

AmountTexts == {"abc", "-3", "0", "3", "6", "15"}

\* Option<String> descriptions, by length in bytes.
Descriptions == {None, Some(501)}

\* TXN-<12 hex digits of a fresh uuid>: the values Transaction::new can draw.
References == {"TXN-1", "TXN-2"}

\* TransactionNewError without the match on the transaction type of lines
\* 814-842.
TransactionNewErrorAnyShape(request) ==
  IF request.amount <= 0 THEN "ValidationError"
  ELSE IF request.currency # "NGN" THEN "ValidationError"
  ELSE IF request.description # None /\ Unwrap(request.description) > MaxDescriptionLen
       THEN "ValidationError"
  ELSE "Ok"

\* Transaction::new: the validation order of the constructor.
TransactionNewError(request) ==
  IF request.amount <= 0 THEN "ValidationError"
  ELSE IF request.currency # "NGN" THEN "ValidationError"
  ELSE IF request.transaction_type = "Transfer"
          /\ (request.sender_wallet_id = NoId \/ request.receiver_wallet_id = NoId)
       THEN "ValidationError"
  ELSE IF request.transaction_type = "Transfer"
          /\ request.sender_wallet_id = request.receiver_wallet_id
       THEN "ValidationError"
  ELSE IF request.transaction_type = "Deposit"
          /\ (request.receiver_wallet_id = NoId \/ request.sender_wallet_id # NoId)
       THEN "ValidationError"
  ELSE IF request.transaction_type = "Withdrawal"
          /\ (request.sender_wallet_id = NoId \/ request.receiver_wallet_id # NoId)
       THEN "ValidationError"
  ELSE IF request.description # None /\ Unwrap(request.description) > MaxDescriptionLen
       THEN "ValidationError"
  ELSE "Ok"

\* The record Transaction::new returns on success.
TransactionNew(request, id, reference) ==
  [id |-> id,
   sender_wallet_id |-> request.sender_wallet_id,
   receiver_wallet_id |-> request.receiver_wallet_id,
   transaction_type |-> request.transaction_type,
   amount |-> request.amount,
   currency |-> request.currency,
   status |-> "Pending",
   description |-> request.description,
   reference |-> reference]

VARIABLES
  wallets,        \* committed rows of table wallets, by wallet id
  transactions,   \* committed rows of table transactions
  balance0,       \* the balances the run started with
  rowLock,        \* holder of each wallet's row lock (None when free)
  pc,             \* where each request is
  req,            \* the request each process serves
  retry_of,       \* the earlier request a request resubmits, if any
  local,          \* the values a handler carries across awaits
  tx,             \* the uncommitted writes of a request's database transaction
  result,         \* what the handler returned
  wal,            \* a Wallet entity (entity run)
  wret,           \* what the last Wallet operation returned
  trec,           \* a Transaction entity (entity run)
  tret,           \* what the last Transaction operation returned
  users,          \* committed rows of table users
  wallet_rows,    \* rows of table wallets that registrations have inserted
  retry           \* the last call of calculate_retry_after and its outcome

vars == <<wallets, transactions, balance0, rowLock, pc, req, retry_of, local, tx,
          result, wal, wret, trec, tret, users, wallet_rows, retry>>

ledgerVars == <<wallets, transactions, balance0, rowLock, pc, req, retry_of, local,
                tx, result>>

entityVars == <<wal, wret, trec, tret>>

registryVars == <<users, wallet_rows>>

limiterVars == <<retry>>

\* No call of calculate_retry_after yet.
NoRetry == [called |-> FALSE, attempt |-> 0, panicked |-> FALSE, value |-> 0]

NoRequest == [kind |-> "none"]

NoTx == [begun |-> FALSE, debited |-> FALSE, credited |-> FALSE, inserted |-> FALSE]

NoLocal ==
  [sender |-> NoId, receiver |-> NoId, transaction |-> None, wallet |-> None,
   user |-> None]

WalletRow(balance, status, pin_hash) ==
  [balance |-> balance, status |-> status, pin_hash |-> pin_hash]

\* The wallet tables a run may start from.
InitialTables ==
  { [w \in WalletIds |->
       IF w = "A" THEN WalletRow(10, "active", Some(BcryptHash(Pin1234)))
       ELSE WalletRow(0, "active", None)],
    [w \in WalletIds |->
       IF w = "A" THEN WalletRow(10, "active", Some(BcryptHash(Pin1234)))
       ELSE WalletRow(6, "active", Some(BcryptHash(Pin1234)))],
    [w \in WalletIds |->
       IF w = "A" THEN WalletRow(10, "active", Some(BcryptHash(Pin1234)))
       ELSE WalletRow(6, "suspended", Some(BcryptHash(Pin1234)))],
    [w \in WalletIds |->
       IF w = "A" THEN WalletRow(10, "locked", Some(BcryptHash(Pin1234)))
       ELSE WalletRow(6, "active", Some(BcryptHash(Pin1234)))] }

\* Wallet::new with no PIN (entities.rs:664-675).
NewWallet ==
  [id |-> "A", user_id |-> "alice", balance |-> 0, status |-> "Active",
   pin_hash |-> None]

IdleTransaction ==
  TransactionNew([sender_wallet_id |-> "A", receiver_wallet_id |-> "B",
                  transaction_type |-> "Transfer", amount |-> 3,
                  currency |-> "NGN", description |-> None], 0, "TXN-1")

InitLedgerWith(tables) ==
  /\ wallets \in tables
  /\ balance0 = [w \in WalletIds |-> wallets[w].balance]
  /\ transactions = {}
  /\ rowLock = [w \in WalletIds |-> None]
  /\ pc = [p \in Procs |-> "idle"]
  /\ req = [p \in Procs |-> NoRequest]
  /\ retry_of = [p \in Procs |-> None]
  /\ local = [p \in Procs |-> NoLocal]
  /\ tx = [p \in Procs |-> NoTx]
  /\ result = [p \in Procs |-> "none"]

InitEntitiesIdle ==
  /\ wal = NewWallet
  /\ wret = "none"
  /\ trec = IdleTransaction
  /\ tret = "none"
  /\ users = {}
  /\ wallet_rows = {}
  /\ retry = NoRetry

Init ==
  /\ InitLedgerWith(InitialTables)
  /\ InitEntitiesIdle

----------------------------------------------------------------------------
(* Request bodies *)

\* Plain transfers between alice and bob: 3 or 6, PIN 1234, no description.
PlainTransfers ==
  {[kind |-> "transfer", user |-> u,
    receiver_user_id |-> (IF u = "alice" THEN "bob" ELSE "alice"),
    amount |-> a, pin |-> Pin1234, description |-> None] :
     u \in {"alice", "bob"}, a \in {"3", "6"}}

\* The transfer requests the clients send: the plain ones, and each with one
\* field changed (a user with no wallet, oneself as receiver, another amount
\* text, another PIN, a description that is too long).
TransferRequests ==
  PlainTransfers
  \cup {[r EXCEPT !.user = "carol"] : r \in PlainTransfers}
  \cup {[r EXCEPT !.receiver_user_id = "carol"] : r \in PlainTransfers}
  \cup {[r EXCEPT !.receiver_user_id = r.user] : r \in PlainTransfers}
  \cup {[r EXCEPT !.amount = a] : r \in PlainTransfers, a \in AmountTexts}
  \cup {[r EXCEPT !.pin = Pin0000] : r \in PlainTransfers}
  \cup {[r EXCEPT !.description = d] : r \in PlainTransfers, d \in Descriptions}

SetPinBodies ==
  [kind : {"set_pin"}, user : Users,
   pins : {<<Pin0000, Pin0000>>, <<Pin0000, Pin1234>>, <<PinAlpha, PinAlpha>>,
           <<PinShort, PinShort>>}]

\* The set-PIN requests the clients send: alice's, and the plain one of the others.
SetPinRequests ==
  {r \in SetPinBodies : r.user = "alice" \/ r.pins = <<Pin0000, Pin0000>>}

\* The handler returns: nothing is left of the request but its result.
Return(p, r) ==
  /\ pc' = [pc EXCEPT ![p] = "done"]
  /\ result' = [result EXCEPT ![p] = r]

\* Dropping the sqlx transaction: its writes are discarded, its locks released.
ReleasedLocks(p) == [w \in WalletIds |-> IF rowLock[w] = Some(p) THEN None ELSE rowLock[w]]

Rollback(p) ==
  /\ rowLock' = ReleasedLocks(p)
  /\ tx' = [tx EXCEPT ![p] = NoTx]

----------------------------------------------------------------------------
(* create_transfer, src/src/api/payment_handlers.rs:88-176 *)

\* The amount of a transfer request once parsed.
Amount(p) == DecimalFromStr(req[p].amount).val

\* Lines 93-101: parse and validate the amount, before any await.
StartTransfer(p, r, original) ==
  /\ pc[p] = "idle"
  /\ req' = [req EXCEPT ![p] = r]
  /\ retry_of' = [retry_of EXCEPT ![p] = original]
  /\ IF ~DecimalFromStr(r.amount).ok THEN Return(p, "ValidationError")
     ELSE IF DecimalFromStr(r.amount).val <= 0 THEN Return(p, "ValidationError")
     ELSE /\ pc' = [pc EXCEPT ![p] = "find_sender"]
          /\ UNCHANGED result
  /\ UNCHANGED <<wallets, transactions, balance0, rowLock, local, tx>>

\* A client submits a transfer request.
SubmitTransfer(p) ==
  /\ \E r \in TransferRequests : StartTransfer(p, r, None)
  /\ UNCHANGED <<entityVars, registryVars, limiterVars>>

\* A client submits again the request an earlier call has answered.
RetryTransfer(p) ==
  /\ \E q \in Procs \ {p} :
       /\ pc[q] = "done"
       /\ req[q].kind = "transfer"
       /\ StartTransfer(p, req[q], Some(q))
  /\ UNCHANGED <<entityVars, registryVars, limiterVars>>

\* Lines 103-118: find_by_user_id(sender), verify_pin, has_sufficient_balance.
FindSenderWallet(p) ==
  /\ pc[p] = "find_sender"
  /\ LET w == WalletOfUser(req[p].user) IN
       IF w = NoId THEN Return(p, "NotFound") /\ UNCHANGED local
       ELSE LET sender_wallet == WalletToDomain(w, wallets[w])
                v == VerifyPin(sender_wallet, req[p].pin) IN
         IF v.err # "Ok" THEN Return(p, v.err) /\ UNCHANGED local
         ELSE IF ~v.val THEN Return(p, "AuthenticationError") /\ UNCHANGED local
         ELSE IF ~HasSufficientBalance(sender_wallet, Amount(p))
              THEN Return(p, "InsufficientFunds") /\ UNCHANGED local
         ELSE /\ local' = [local EXCEPT ![p].sender = sender_wallet.id]
              /\ pc' = [pc EXCEPT ![p] = "find_receiver"]
              /\ UNCHANGED result
  /\ UNCHANGED <<wallets, transactions, balance0, rowLock, req, retry_of, tx>>
  /\ UNCHANGED <<entityVars, registryVars, limiterVars>>

\* Lines 134-142: the CreateTransactionRequest the handler builds.
TransferTransactionRequest(p, receiver) ==
  [sender_wallet_id |-> local[p].sender,
   receiver_wallet_id |-> receiver,
   transaction_type |-> "Transfer",
   amount |-> Amount(p),
   currency |-> "NGN",
   description |-> req[p].description]

\* FindReceiverWallet without the self-transfer check of lines 127-132 and
\* without the validation of Transaction::new: the record is built from
\* whatever wallet the receiver resolves to.
FindReceiverWalletUnchecked(p) ==
  /\ pc[p] = "find_receiver"
  /\ LET w == WalletOfUser(req[p].receiver_user_id) IN
       IF w = NoId THEN Return(p, "NotFound") /\ UNCHANGED local
       ELSE \E reference \in References :
              /\ local' = [local EXCEPT ![p].receiver = w,
                             ![p].transaction =
                               Some(TransactionNew(TransferTransactionRequest(p, w),
                                                   p, reference))]
              /\ pc' = [pc EXCEPT ![p] = "begin"]
              /\ UNCHANGED result
  /\ UNCHANGED <<wallets, transactions, balance0, rowLock, req, retry_of, tx>>
  /\ UNCHANGED <<entityVars, registryVars, limiterVars>>

\* Lines 120-144: find_by_user_id(receiver), the self-transfer check,
\* Transaction::new.
FindReceiverWallet(p) ==
  /\ pc[p] = "find_receiver"
  /\ LET w == WalletOfUser(req[p].receiver_user_id) IN
       IF w = NoId THEN Return(p, "NotFound") /\ UNCHANGED local
       ELSE IF local[p].sender = w THEN Return(p, "ValidationError") /\ UNCHANGED local
       ELSE LET request == TransferTransactionRequest(p, w) IN
         IF TransactionNewError(request) # "Ok"
         THEN Return(p, TransactionNewError(request)) /\ UNCHANGED local
         ELSE \E reference \in References :
              /\ local' = [local EXCEPT ![p].receiver = w,
                             ![p].transaction = Some(TransactionNew(request, p, reference))]
              /\ pc' = [pc EXCEPT ![p] = "begin"]
              /\ UNCHANGED result
  /\ UNCHANGED <<wallets, transactions, balance0, rowLock, req, retry_of, tx>>
  /\ UNCHANGED <<entityVars, registryVars, limiterVars>>

----------------------------------------------------------------------------
(* PostgresWalletRepository::process_transfer,
   src/src/infrastructure/database/repositories/wallet.rs:389-475 *)

TheTransaction(p) == Unwrap(local[p].transaction)

\* Lines 396-399: pool.begin().
BeginTx(p) ==
  /\ pc[p] = "begin"
  /\ tx' = [tx EXCEPT ![p].begun = TRUE]
  /\ pc' = [pc EXCEPT ![p] = "lock_sender"]
  /\ UNCHANGED <<wallets, transactions, balance0, rowLock, req, retry_of, local, result>>
  /\ UNCHANGED <<entityVars, registryVars, limiterVars>>

\* RowActive without the status checks of lines 410 and 429: a row of any
\* status passes.
RowActiveUnchecked(row) == TRUE

\* Line 410: the status read under the row lock.
RowActive(row) == row.status = "active"

\* RowCovers without the re-check of line 416: the handler's earlier check of
\* has_sufficient_balance is trusted.
RowCoversUnchecked(row, amount) == TRUE

\* Line 416: the balance read under the row lock against the amount.
RowCovers(row, amount) == ~(row.balance < amount)

\* Lines 401-418: SELECT balance, status ... FOR UPDATE on the sender row,
\* then the two checks; an early return drops the transaction.
LockSender(p) ==
  /\ pc[p] = "lock_sender"
  /\ rowLock[local[p].sender] = None
  /\ LET row == wallets[local[p].sender] IN
       IF ~RowActive(row) THEN Rollback(p) /\ Return(p, "PaymentError")
       ELSE IF ~RowCovers(row, TheTransaction(p).amount)
            THEN Rollback(p) /\ Return(p, "InsufficientFunds")
       ELSE /\ rowLock' = [rowLock EXCEPT ![local[p].sender] = Some(p)]
            /\ pc' = [pc EXCEPT ![p] = "lock_receiver"]
            /\ UNCHANGED <<tx, result>>
  /\ UNCHANGED <<wallets, transactions, balance0, req, retry_of, local>>
  /\ UNCHANGED <<entityVars, registryVars, limiterVars>>

\* Lines 420-433: SELECT status ... FOR UPDATE on the receiver row.
LockReceiver(p) ==
  /\ pc[p] = "lock_receiver"
  /\ rowLock[local[p].receiver] = None
  /\ LET row == wallets[local[p].receiver] IN
       IF ~RowActive(row) THEN Rollback(p) /\ Return(p, "PaymentError")
       ELSE /\ rowLock' = [rowLock EXCEPT ![local[p].receiver] = Some(p)]
            /\ pc' = [pc EXCEPT ![p] = "debit"]
            /\ UNCHANGED <<tx, result>>
  /\ UNCHANGED <<wallets, transactions, balance0, req, retry_of, local>>
  /\ UNCHANGED <<entityVars, registryVars, limiterVars>>

\* DebitSender with the UPDATE executed on the pool instead of the open
\* transaction: the debit is committed on its own.
DebitSenderOnPool(p) ==
  /\ pc[p] = "debit"
  /\ wallets' = [wallets EXCEPT ![local[p].sender].balance =
                   wallets[local[p].sender].balance - Unwrap(local[p].transaction).amount]
  /\ pc' = [pc EXCEPT ![p] = "credit"]
  /\ UNCHANGED <<transactions, balance0, rowLock, req, retry_of, local, tx, result>>
  /\ UNCHANGED <<entityVars, registryVars, limiterVars>>

\* Lines 435-441: UPDATE wallets SET balance = balance - $2 inside the transaction.
DebitSender(p) ==
  /\ pc[p] = "debit"
  /\ tx' = [tx EXCEPT ![p].debited = TRUE]
  /\ pc' = [pc EXCEPT ![p] = "credit"]
  /\ UNCHANGED <<wallets, transactions, balance0, rowLock, req, retry_of, local, result>>
  /\ UNCHANGED <<entityVars, registryVars, limiterVars>>

\* Lines 443-449: UPDATE wallets SET balance = balance + $2 inside the transaction.
CreditReceiver(p) ==
  /\ pc[p] = "credit"
  /\ tx' = [tx EXCEPT ![p].credited = TRUE]
  /\ pc' = [pc EXCEPT ![p] = "insert"]
  /\ UNCHANGED <<wallets, transactions, balance0, rowLock, req, retry_of, local, result>>
  /\ UNCHANGED <<entityVars, registryVars, limiterVars>>

\* InsertedRow binding the status of the record it was handed.
InsertedRowAsHanded(t) == t

\* Lines 451-465: the row the INSERT binds: "transfer", "completed", and the
\* id, wallet ids, amount, currency, description and reference of the record
\* it was handed.
InsertedRow(t) ==
  [t EXCEPT !.transaction_type = "Transfer", !.status = "Completed"]

\* The uniqueness constraint on transactions.reference: a committed row
\* already carries this reference.
ReferenceTaken(reference) == \E t \in transactions : t.reference = reference

\* Another open transaction has inserted a row with this reference: the INSERT
\* waits for that transaction to end.
ReferencePending(p, reference) ==
  \E q \in Procs \ {p} :
    tx[q].inserted /\ TheTransaction(q).reference = reference

\* Lines 451-468: INSERT INTO transactions ... RETURNING *; a violated
\* constraint is a sqlx error, which map_err turns into DatabaseError.
InsertRecord(p) ==
  /\ pc[p] = "insert"
  /\ ~ReferencePending(p, TheTransaction(p).reference)
  /\ IF ReferenceTaken(TheTransaction(p).reference)
     THEN Rollback(p) /\ Return(p, "DatabaseError")
     ELSE /\ tx' = [tx EXCEPT ![p].inserted = TRUE]
          /\ pc' = [pc EXCEPT ![p] = "commit"]
          /\ UNCHANGED <<rowLock, result>>
  /\ UNCHANGED <<wallets, transactions, balance0, req, retry_of, local>>
  /\ UNCHANGED <<entityVars, registryVars, limiterVars>>

\* CommittedWallets with the credit lost.
CommittedWalletsNoCredit(p) ==
  [w \in WalletIds |->
     [wallets[w] EXCEPT !.balance =
        wallets[w].balance
        - (IF tx[p].debited /\ w = local[p].sender
           THEN Unwrap(local[p].transaction).amount ELSE 0)]]

\* The wallet rows once the transaction's UPDATEs are committed.
CommittedWallets(p) ==
  [w \in WalletIds |->
     [wallets[w] EXCEPT !.balance =
        wallets[w].balance
        - (IF tx[p].debited /\ w = local[p].sender THEN TheTransaction(p).amount ELSE 0)
        + (IF tx[p].credited /\ w = local[p].receiver THEN TheTransaction(p).amount ELSE 0)]]

\* The transactions table once the transaction's INSERT is committed.
CommittedTransactions(p) ==
  IF tx[p].inserted THEN transactions \cup {InsertedRow(TheTransaction(p))}
  ELSE transactions

\* Lines 470-474: tx.commit(); the handler goes on with the returned row.
CommitTx(p) ==
  /\ pc[p] = "commit"
  /\ wallets' = CommittedWallets(p)
  /\ transactions' = CommittedTransactions(p)
  /\ rowLock' = ReleasedLocks(p)
  /\ tx' = [tx EXCEPT ![p] = NoTx]
  /\ local' = [local EXCEPT ![p].transaction = Some(InsertedRow(TheTransaction(p)))]
  /\ pc' = [pc EXCEPT ![p] = "sender_user"]
  /\ UNCHANGED <<balance0, req, retry_of, result>>
  /\ UNCHANGED <<entityVars, registryVars, limiterVars>>

\* payment_handlers.rs:152-157: user_repo.find_by_id(sender).
FindSenderUser(p) ==
  /\ pc[p] = "sender_user"
  /\ pc' = [pc EXCEPT ![p] = "receiver_user"]
  /\ UNCHANGED <<wallets, transactions, balance0, rowLock, req, retry_of, local, tx, result>>
  /\ UNCHANGED <<entityVars, registryVars, limiterVars>>

\* payment_handlers.rs:159-175: user_repo.find_by_id(receiver), 201 Created.
FindReceiverUser(p) ==
  /\ pc[p] = "receiver_user"
  /\ Return(p, "Ok")
  /\ UNCHANGED <<wallets, transactions, balance0, rowLock, req, retry_of, local, tx>>
  /\ UNCHANGED <<entityVars, registryVars, limiterVars>>

\* The awaits of a request that go to the database.
DatabaseSteps ==
  {"find_sender", "find_receiver", "begin", "lock_sender", "lock_receiver", "debit",
   "credit", "insert", "commit", "sender_user", "receiver_user", "sp_find", "sp_update",
   "rg_username", "rg_email", "rg_create_user", "rg_create_wallet",
   "db_find", "db_update"}

\* Any database call fails (connection lost, statement error): map_err turns
\* it into DatabaseError, `?` returns it, and the open transaction is dropped.
StorageError(p) ==
  /\ pc[p] \in DatabaseSteps
  /\ Rollback(p)
  /\ Return(p, "DatabaseError")
  /\ UNCHANGED <<wallets, transactions, balance0, req, retry_of, local>>
  /\ UNCHANGED <<entityVars, registryVars, limiterVars>>

\* p waits for a row lock that q holds.
WaitsFor(p, q) ==
  \/ pc[p] = "lock_sender" /\ rowLock[local[p].sender] = Some(q)
  \/ pc[p] = "lock_receiver" /\ rowLock[local[p].receiver] = Some(q)
  \/ pc[p] = "sp_update" /\ rowLock[Unwrap(local[p].wallet).id] = Some(q)

\* Two transactions each wait for a row lock the other holds.
CircularWait == \E p, q \in Procs : p # q /\ WaitsFor(p, q) /\ WaitsFor(q, p)

\* PostgreSQL's deadlock detector ends one of the waiting statements with an
\* error, which the handler returns as DatabaseError.
DeadlockDetected(p) ==
  /\ \E q \in Procs \ {p} : WaitsFor(p, q) /\ WaitsFor(q, p)
  /\ Rollback(p)
  /\ Return(p, "DatabaseError")
  /\ UNCHANGED <<wallets, transactions, balance0, req, retry_of, local>>
  /\ UNCHANGED <<entityVars, registryVars, limiterVars>>

----------------------------------------------------------------------------
(* set_wallet_pin, src/src/api/payment_handlers.rs:57-85 *)

\* Lines 62-67: the confirmation check, before any await.
SubmitSetPin(p) ==
  /\ pc[p] = "idle"
  /\ \E r \in SetPinRequests :
       /\ req' = [req EXCEPT ![p] = r]
       /\ IF r.pins[1] # r.pins[2] THEN Return(p, "ValidationError")
          ELSE pc' = [pc EXCEPT ![p] = "sp_find"] /\ UNCHANGED result
  /\ UNCHANGED <<wallets, transactions, balance0, rowLock, retry_of, local, tx>>
  /\ UNCHANGED <<entityVars, registryVars, limiterVars>>

\* Wallet::set_pin on a row read from the table (entities.rs:688-703).
WithPin(wallet, pin) == [wallet EXCEPT !.pin_hash = Some(BcryptHash(pin))]

\* Lines 69-77: find_by_user_id, then Wallet::set_pin on the copy read.
SetPinFindWallet(p) ==
  /\ pc[p] = "sp_find"
  /\ LET w == WalletOfUser(req[p].user) IN
       IF w = NoId THEN Return(p, "NotFound") /\ UNCHANGED local
       ELSE IF PinError(req[p].pins[1]) # "Ok"
            THEN Return(p, PinError(req[p].pins[1])) /\ UNCHANGED local
       ELSE /\ local' = [local EXCEPT ![p].wallet =
                           Some(WithPin(WalletToDomain(w, wallets[w]), req[p].pins[1]))]
            /\ pc' = [pc EXCEPT ![p] = "sp_update"]
            /\ UNCHANGED result
  /\ UNCHANGED <<wallets, transactions, balance0, rowLock, req, retry_of, tx>>
  /\ UNCHANGED <<entityVars, registryVars, limiterVars>>

\* PostgresWalletRepository::update (wallet.rs:125-148): UPDATE wallets SET
\* balance = $2, status = $3, pin_hash = $4 from the wallet value it is given.
UpdatedRow(old, wallet) ==
  [old EXCEPT !.balance = wallet.balance, !.status = StatusToColumn(wallet.status),
              !.pin_hash = wallet.pin_hash]

\* Lines 79-84: wallet_repo.update(&wallet); the UPDATE waits for the row lock.
SetPinUpdate(p) ==
  /\ pc[p] = "sp_update"
  /\ LET w == Unwrap(local[p].wallet) IN
       /\ rowLock[w.id] = None
       /\ wallets' = [wallets EXCEPT ![w.id] = UpdatedRow(wallets[w.id], w)]
  /\ Return(p, "Ok")
  /\ UNCHANGED <<transactions, balance0, rowLock, req, retry_of, local, tx>>
  /\ UNCHANGED <<entityVars, registryVars, limiterVars>>

----------------------------------------------------------------------------
(* The ledger as a system of concurrent requests *)

TransferStep(p) ==
  \/ SubmitTransfer(p)
  \/ RetryTransfer(p)
  \/ FindSenderWallet(p)
  \/ FindReceiverWallet(p)
  \/ BeginTx(p)
  \/ LockSender(p)
  \/ LockReceiver(p)
  \/ DebitSender(p)
  \/ CreditReceiver(p)
  \/ InsertRecord(p)
  \/ CommitTx(p)
  \/ FindSenderUser(p)
  \/ FindReceiverUser(p)
  \/ StorageError(p)
  \/ DeadlockDetected(p)

SetPinStep(p) ==
  \/ SubmitSetPin(p)
  \/ SetPinFindWallet(p)
  \/ SetPinUpdate(p)

NextTransfers == \E p \in Procs : TransferStep(p)

Next == \E p \in Procs : TransferStep(p) \/ SetPinStep(p)

\* Transfers and set-PIN requests, concurrently.
Spec == Init /\ [][Next]_vars

\* Transfer requests only.
SpecTransfers == Init /\ [][NextTransfers]_vars

\* The steps of a transfer when no database call fails: what is left of
\* TransferStep is the program and the database's answer to a circular wait.
FailureFreeStep(p) ==
  \/ SubmitTransfer(p)
  \/ RetryTransfer(p)
  \/ FindSenderWallet(p)
  \/ FindReceiverWallet(p)
  \/ BeginTx(p)
  \/ LockSender(p)
  \/ LockReceiver(p)
  \/ DebitSender(p)
  \/ CreditReceiver(p)
  \/ InsertRecord(p)
  \/ CommitTx(p)
  \/ FindSenderUser(p)
  \/ FindReceiverUser(p)
  \/ DeadlockDetected(p)

NextFailureFree == \E p \in Procs : FailureFreeStep(p)

\* Concurrent transfer requests against a database whose calls do not fail.
SpecFailureFree == Init /\ [][NextFailureFree]_vars

\* create_transfer and process_transfer for the request of p, run from the
\* first line to the last with no other request in between, on the given
\* tables: the checks in the order of the code, then the debit, the credit
\* and the record.
SerialTransfer(tables, records, p, reference) ==
  LET parsed == DecimalFromStr(req[p].amount)
      s == WalletOfUser(req[p].user)
      r == WalletOfUser(req[p].receiver_user_id)
      Refuse(error) == [wallets |-> tables, transactions |-> records, result |-> error]
  IN IF ~parsed.ok \/ parsed.val <= 0 THEN Refuse("ValidationError")
     ELSE IF s = NoId THEN Refuse("NotFound")
     ELSE LET sender_wallet == WalletToDomain(s, tables[s])
              v == VerifyPin(sender_wallet, req[p].pin) IN
       IF v.err # "Ok" THEN Refuse(v.err)
       ELSE IF ~v.val THEN Refuse("AuthenticationError")
       ELSE IF ~HasSufficientBalance(sender_wallet, parsed.val)
            THEN Refuse("InsufficientFunds")
       ELSE IF r = NoId THEN Refuse("NotFound")
       ELSE IF s = r THEN Refuse("ValidationError")
       ELSE LET request == [sender_wallet_id |-> s, receiver_wallet_id |-> r,
                            transaction_type |-> "Transfer", amount |-> parsed.val,
                            currency |-> "NGN", description |-> req[p].description] IN
         IF TransactionNewError(request) # "Ok" THEN Refuse(TransactionNewError(request))
         ELSE IF ~RowActive(tables[s]) THEN Refuse("PaymentError")
         ELSE IF ~RowCovers(tables[s], parsed.val) THEN Refuse("InsufficientFunds")
         ELSE IF ~RowActive(tables[r]) THEN Refuse("PaymentError")
         ELSE IF \E t \in records : t.reference = reference THEN Refuse("DatabaseError")
         ELSE [wallets |-> [tables EXCEPT ![s].balance = @ - parsed.val,
                                          ![r].balance = @ + parsed.val],
               transactions |->
                 records \cup {InsertedRow(TransactionNew(request, p, reference))},
               result |-> "Ok"]

RECURSIVE SerialRun(_, _, _, _)
\* The requests of the processes in `order`, one at a time: the tables at the
\* end and the answer each request got.
SerialRun(order, refs, tables, records) ==
  IF order = <<>>
  THEN [wallets |-> tables, transactions |-> records, result |-> <<>>]
  ELSE LET first == SerialTransfer(tables, records, Head(order), refs[Head(order)])
           rest == SerialRun(Tail(order), refs, first.wallets, first.transactions)
       IN [wallets |-> rest.wallets, transactions |-> rest.transactions,
           result |-> <<first.result>> \o rest.result]

----------------------------------------------------------------------------
(* Wallet, src/src/domain/entities.rs:705-750, as a value the calls act on *)

\* The amounts the calls on the Wallet entity are made with.
EntityAmounts == {-2, 0, 1, 3, 20}

\* CreditError without the status check of line 710.
CreditErrorAnyStatus(w, amount) ==
  IF amount <= 0 THEN "ValidationError"
  ELSE "Ok"

\* Wallet::credit, lines 706-712: what the call returns.
CreditError(w, amount) ==
  IF amount <= 0 THEN "ValidationError"
  ELSE IF w.status # "Active" THEN "PaymentError"
  ELSE "Ok"

\* DebitError without the balance check of line 728.
DebitErrorNoBalanceCheck(w, amount) ==
  IF amount <= 0 THEN "ValidationError"
  ELSE IF w.status # "Active" THEN "PaymentError"
  ELSE "Ok"

\* Wallet::debit, lines 720-730: what the call returns.
DebitError(w, amount) ==
  IF amount <= 0 THEN "ValidationError"
  ELSE IF w.status # "Active" THEN "PaymentError"
  ELSE IF w.balance < amount THEN "InsufficientFunds"
  ELSE "Ok"

\* Wallet::credit(amount), lines 705-717.
Credit(amount) ==
  /\ wret' = CreditError(wal, amount)
  /\ IF CreditError(wal, amount) = "Ok"
     THEN /\ wal.balance + amount <= MaxBalance
          /\ wal' = [wal EXCEPT !.balance = wal.balance + amount]
     ELSE wal' = wal
  /\ UNCHANGED <<trec, tret>>
  /\ UNCHANGED <<ledgerVars, registryVars, limiterVars>>

\* Wallet::debit(amount), lines 719-735.
Debit(amount) ==
  /\ wret' = DebitError(wal, amount)
  /\ IF DebitError(wal, amount) = "Ok"
     THEN wal' = [wal EXCEPT !.balance = wal.balance - amount]
     ELSE wal' = wal
  /\ UNCHANGED <<trec, tret>>
  /\ UNCHANGED <<ledgerVars, registryVars, limiterVars>>

WalletCredit == \E amount \in EntityAmounts : Credit(amount)

WalletDebit == \E amount \in EntityAmounts : Debit(amount)

WalletSuspend ==
  /\ wal' = [wal EXCEPT !.status = "Suspended"]
  /\ wret' = "Ok"
  /\ UNCHANGED <<trec, tret>>
  /\ UNCHANGED <<ledgerVars, registryVars, limiterVars>>

WalletLock ==
  /\ wal' = [wal EXCEPT !.status = "Locked"]
  /\ wret' = "Ok"
  /\ UNCHANGED <<trec, tret>>
  /\ UNCHANGED <<ledgerVars, registryVars, limiterVars>>

WalletActivate ==
  /\ wal' = [wal EXCEPT !.status = "Active"]
  /\ wret' = "Ok"
  /\ UNCHANGED <<trec, tret>>
  /\ UNCHANGED <<ledgerVars, registryVars, limiterVars>>

\* The PIN texts the calls on the Wallet entity are made with.
PinInputs == {Pin1234, Pin0000, PinShort, PinAlpha, PinTwoByte}

\* Wallet::set_pin(pin), lines 688-703.
SetPin(pin) ==
  /\ wret' = PinError(pin)
  /\ wal' = IF PinError(pin) = "Ok" THEN WithPin(wal, pin) ELSE wal
  /\ UNCHANGED <<trec, tret>>
  /\ UNCHANGED <<ledgerVars, registryVars, limiterVars>>

\* What a call of verify_pin hands back: the error, or the boolean.
VerifyPinOutcome(wallet, pin) ==
  IF VerifyPin(wallet, pin).err # "Ok" THEN VerifyPin(wallet, pin).err
  ELSE IF VerifyPin(wallet, pin).val THEN "true" ELSE "false"

\* Wallet::verify_pin(pin), lines 678-686.
VerifyPinCall(pin) ==
  /\ wret' = VerifyPinOutcome(wal, pin)
  /\ wal' = wal
  /\ UNCHANGED <<trec, tret>>
  /\ UNCHANGED <<ledgerVars, registryVars, limiterVars>>

\* The requests Wallet::new is called with.
CreateWalletRequests ==
  [user_id : {"alice", "bob"}, currency : {"NGN", "USD"},
   pin : {None} \cup {Some(pin) : pin \in PinInputs}]

\* WalletNewError without the currency check of line 642.
WalletNewErrorAnyCurrency(request) ==
  IF request.pin # None /\ PinError(Unwrap(request.pin)) # "Ok"
  THEN PinError(Unwrap(request.pin))
  ELSE "Ok"

\* Wallet::new, lines 641-662: what the call returns.
WalletNewError(request) ==
  IF request.currency # "NGN" THEN "ValidationError"
  ELSE IF request.pin # None /\ PinError(Unwrap(request.pin)) # "Ok"
       THEN PinError(Unwrap(request.pin))
  ELSE "Ok"

\* Wallet::new, lines 664-675: the Wallet built.
WalletNewValue(request, id) ==
  [id |-> id, user_id |-> request.user_id, balance |-> 0, status |-> "Active",
   pin_hash |-> IF request.pin = None THEN None
                ELSE Some(BcryptHash(Unwrap(request.pin)))]

\* Wallet::new(request): the run goes on with the Wallet built, if any.
WalletNewCall(request) ==
  /\ wret' = WalletNewError(request)
  /\ IF WalletNewError(request) = "Ok"
     THEN wal' = WalletNewValue(request, NewWallet.id)
     ELSE wal' = wal
  /\ UNCHANGED <<trec, tret>>
  /\ UNCHANGED <<ledgerVars, registryVars, limiterVars>>

WalletNew == \E request \in CreateWalletRequests : WalletNewCall(request)

WalletSetPin == \E pin \in PinInputs : SetPin(pin)

WalletVerifyPin == \E pin \in PinInputs : VerifyPinCall(pin)

NextWallet ==
  \/ WalletCredit
  \/ WalletDebit
  \/ WalletSuspend
  \/ WalletLock
  \/ WalletActivate
  \/ WalletSetPin
  \/ WalletVerifyPin
  \/ WalletNew

\* The ledger at rest, for the runs that exercise one entity.
InitLedgerIdle ==
  InitLedgerWith({[w \in WalletIds |-> WalletRow(0, "active", None)]})

\* The state the entity runs start from.
InitEntityRun == InitLedgerIdle /\ InitEntitiesIdle

\* Any sequence of calls on one Wallet.
SpecWallet == InitEntityRun /\ [][NextWallet]_vars

\* The operations that take a PIN text: set-PIN requests on the ledger, and
\* Wallet::new and Wallet::set_pin on a Wallet.
NextPins ==
  \/ \E p \in Procs : SetPinStep(p) \/ StorageError(p)
  \/ WalletNew
  \/ WalletSetPin

\* Wallet A with PIN 1234 and wallet B with none, and the entities at rest.
InitPins ==
  /\ InitLedgerWith({[w \in WalletIds |->
                        IF w = "A" THEN WalletRow(10, "active", Some(BcryptHash(Pin1234)))
                        ELSE WalletRow(0, "active", None)]})
  /\ InitEntitiesIdle

SpecPins == InitPins /\ [][NextPins]_vars

----------------------------------------------------------------------------
(* Transaction, src/src/domain/entities.rs:802-903, as a value the calls act on *)

\* The requests Transaction::new is called with.
CreateTransactionRequests ==
  [sender_wallet_id : {NoId, "A"}, receiver_wallet_id : {NoId, "A", "B"},
   transaction_type : {"Transfer", "Deposit", "Withdrawal"}, amount : {0, 3},
   currency : {"NGN", "USD"}, description : {None, Some(0), Some(500), Some(501)}]

\* The reasons fail() is called with, by length.
FailReasons == {None, Some(7)}

\* A Transaction has been constructed.
Constructed == tret \notin {"none", "ValidationError"}

\* Transaction::new(request) (lines 802-869).
TransactionNewCall(request) ==
  /\ tret = "none"
  /\ IF TransactionNewError(request) # "Ok"
     THEN tret' = TransactionNewError(request) /\ trec' = trec
     ELSE /\ tret' = "Ok"
          /\ \E reference \in References : trec' = TransactionNew(request, 0, reference)
  /\ UNCHANGED <<wal, wret>>
  /\ UNCHANGED <<ledgerVars, registryVars, limiterVars>>

NewTransaction == \E request \in CreateTransactionRequests : TransactionNewCall(request)

\* Transaction::complete, line 872: what the call returns.
CompleteError(t) == IF t.status # "Pending" THEN "PaymentError" ELSE "Ok"

\* Transaction::fail, line 882: what the call returns.
FailError(t) == IF t.status = "Completed" THEN "PaymentError" ELSE "Ok"

\* CancelError refusing only a Completed transaction, as fail() does.
CancelErrorOnlyCompleted(t) == IF t.status = "Completed" THEN "PaymentError" ELSE "Ok"

\* Transaction::cancel, line 896: what the call returns.
CancelError(t) == IF t.status # "Pending" THEN "PaymentError" ELSE "Ok"

\* Length of an Option<String>, None counting as "" (as_deref().unwrap_or("")).
LenOrEmpty(o) == IF o = None THEN 0 ELSE Unwrap(o)

\* Length of " - Failed: ".
FailedInfixLen == 11

\* Lines 887-890: format!("{} - Failed: {}", description or "", reason).
FailedDescription(t, reason) ==
  IF reason = None THEN t.description
  ELSE Some(LenOrEmpty(t.description) + FailedInfixLen + Unwrap(reason))

TransactionComplete ==
  /\ Constructed
  /\ tret' = CompleteError(trec)
  /\ trec' = IF CompleteError(trec) = "Ok" THEN [trec EXCEPT !.status = "Completed"]
             ELSE trec
  /\ UNCHANGED <<wal, wret>>
  /\ UNCHANGED <<ledgerVars, registryVars, limiterVars>>

TransactionFail ==
  /\ Constructed
  /\ \E reason \in FailReasons :
       /\ LenOrEmpty(FailedDescription(trec, reason)) <= MaxTrackedLen
       /\ tret' = FailError(trec)
       /\ trec' = IF FailError(trec) = "Ok"
                  THEN [trec EXCEPT !.status = "Failed",
                                    !.description = FailedDescription(trec, reason)]
                  ELSE trec
  /\ UNCHANGED <<wal, wret>>
  /\ UNCHANGED <<ledgerVars, registryVars, limiterVars>>

TransactionCancel ==
  /\ Constructed
  /\ tret' = CancelError(trec)
  /\ trec' = IF CancelError(trec) = "Ok" THEN [trec EXCEPT !.status = "Cancelled"]
             ELSE trec
  /\ UNCHANGED <<wal, wret>>
  /\ UNCHANGED <<ledgerVars, registryVars, limiterVars>>

\* PostgresWalletRepository::create_transaction (wallet.rs:244-276): the
\* INSERT of a Transaction that is not stored yet; the caller's value stays
\* as it is.
CreateTransaction ==
  /\ Constructed
  /\ ~(\E t \in transactions : t.id = trec.id)
  /\ transactions' = transactions \cup {trec}
  /\ tret' = "Ok"
  /\ UNCHANGED <<wal, wret, trec>>
  /\ UNCHANGED <<wallets, balance0, rowLock, pc, req, retry_of, local, tx, result>>
  /\ UNCHANGED <<registryVars, limiterVars>>

\* The Transaction values update_transaction is handed: the fields are
\* public, so the reference and the currency are whatever the caller set.
HandedTransactions ==
  {[trec EXCEPT !.reference = reference, !.currency = currency] :
     reference \in References, currency \in {"NGN", "USD"}}

\* UpdatedTransactionRow writing every column from the value handed.
UpdatedTransactionRowWhole(row, handed) == handed

\* Lines 322-337: UPDATE transactions SET transaction_type = $2, amount = $3,
\* status = $4, description = $5, updated_at = $6 WHERE id = $1.
UpdatedTransactionRow(row, handed) ==
  [row EXCEPT !.transaction_type = handed.transaction_type,
              !.amount = handed.amount,
              !.status = handed.status,
              !.description = handed.description]

\* PostgresWalletRepository::update_transaction (wallet.rs:309-340); with no
\* row of that id fetch_one fails and map_err makes it DatabaseError.
UpdateTransaction ==
  /\ Constructed
  /\ \E handed \in HandedTransactions :
       IF \E t \in transactions : t.id = handed.id
       THEN /\ transactions' =
                 {IF t.id = handed.id THEN UpdatedTransactionRow(t, handed) ELSE t :
                    t \in transactions}
            /\ tret' = "Ok"
       ELSE /\ transactions' = transactions
            /\ tret' = "DatabaseError"
  /\ UNCHANGED <<wal, wret, trec>>
  /\ UNCHANGED <<wallets, balance0, rowLock, pc, req, retry_of, local, tx, result>>
  /\ UNCHANGED <<registryVars, limiterVars>>

NextTransaction ==
  \/ NewTransaction
  \/ TransactionComplete
  \/ TransactionFail
  \/ TransactionCancel
  \/ CreateTransaction
  \/ UpdateTransaction

\* Transaction::new, then any sequence of complete, fail and cancel.
SpecTransaction == InitEntityRun /\ [][NextTransaction]_vars

----------------------------------------------------------------------------
(* PostgresWalletRepository::debit_balance,
   src/src/infrastructure/database/repositories/wallet.rs:180-205 *)

\* The calls made: a wallet id (one of them of no row) and an amount.
DebitBalanceCalls ==
  [kind : {"debit_balance"}, wallet_id : WalletIds \cup {NoId}, amount : {-2, 3, 6}]

\* Lines 181-185: the amount check, before any await.
CallDebitBalance(p) ==
  /\ pc[p] = "idle"
  /\ \E r \in DebitBalanceCalls :
       /\ req' = [req EXCEPT ![p] = r]
       /\ IF r.amount <= 0 THEN Return(p, "ValidationError")
          ELSE pc' = [pc EXCEPT ![p] = "db_find"] /\ UNCHANGED result
  /\ UNCHANGED <<wallets, transactions, balance0, rowLock, retry_of, local, tx>>
  /\ UNCHANGED <<entityVars, registryVars, limiterVars>>

\* Lines 187-194: find_by_id, then the balance of the copy read against the
\* amount.
DebitFindWallet(p) ==
  /\ pc[p] = "db_find"
  /\ IF req[p].wallet_id = NoId THEN Return(p, "NotFound")
     ELSE IF WalletToDomain(req[p].wallet_id, wallets[req[p].wallet_id]).balance
               < req[p].amount
          THEN Return(p, "InsufficientFunds")
     ELSE pc' = [pc EXCEPT ![p] = "db_update"] /\ UNCHANGED result
  /\ UNCHANGED <<wallets, transactions, balance0, rowLock, req, retry_of, local, tx>>
  /\ UNCHANGED <<entityVars, registryVars, limiterVars>>

\* Lines 196-204: UPDATE wallets SET balance = balance - $2 WHERE id = $1, on
\* the pool.
DebitUpdate(p) ==
  /\ pc[p] = "db_update"
  /\ rowLock[req[p].wallet_id] = None
  /\ wallets' = [wallets EXCEPT ![req[p].wallet_id].balance =
                   wallets[req[p].wallet_id].balance - req[p].amount]
  /\ Return(p, "Ok")
  /\ UNCHANGED <<transactions, balance0, rowLock, req, retry_of, local, tx>>
  /\ UNCHANGED <<entityVars, registryVars, limiterVars>>

DebitBalanceStep(p) ==
  \/ CallDebitBalance(p)
  \/ DebitFindWallet(p)
  \/ DebitUpdate(p)
  \/ StorageError(p)

NextDebits == \E p \in Procs : DebitBalanceStep(p)

\* Concurrent calls of debit_balance.
SpecDebits == Init /\ [][NextDebits]_vars

----------------------------------------------------------------------------
(* register, src/src/api/auth_handlers.rs:28-99 *)

PasswordGood == <<"P", "a", "s", "s", "w", "0", "r", "d">>

PasswordNoDigit == <<"P", "a", "s", "s", "w", "o", "r", "d">>

\* char::is_uppercase and char::is_lowercase on the characters of the passwords.
UppercaseChars == {"P"}

LowercaseChars == {"a", "s", "w", "o", "r", "d"}

\* Bounds of PasswordService::validate_password (password.rs:31, 37).
MinPasswordLen == 8

MaxPasswordLen == 128

\* PasswordService::validate_password (password.rs:30-65).
ValidatePassword(password) ==
  IF Len(password) < MinPasswordLen THEN "ValidationError"
  ELSE IF Len(password) > MaxPasswordLen THEN "ValidationError"
  ELSE IF ~(\E i \in 1..Len(password) : password[i] \in UppercaseChars)
       THEN "ValidationError"
  ELSE IF ~(\E i \in 1..Len(password) : password[i] \in LowercaseChars)
       THEN "ValidationError"
  ELSE IF ~(\E i \in 1..Len(password) : password[i] \in AsciiDigits)
       THEN "ValidationError"
  ELSE "Ok"

\* Username::new rejects fewer than 3 characters (value_objects.rs:19).
MinUsernameLen == 3

\* Usernames of the requests: trimmed, lower case, alphanumeric.
Usernames == {<<"a", "n", "n">>, <<"b", "o", "b">>, <<"b", "o">>}

Emails == {"ann@x.io", "bob@x.io"}

\* User::new (entities.rs:40-78) on these requests: Username::new.
UserNewError(request) ==
  IF Len(request.username) = 0 THEN "ValidationError"
  ELSE IF Len(request.username) < MinUsernameLen THEN "ValidationError"
  ELSE "Ok"

\* The bodies of POST /auth/register (no phone number).
RegisterRequests ==
  [kind : {"register"}, username : Usernames, email : Emails,
   password : {PasswordGood, PasswordNoDigit}]

\* Lines 33-36: validate_password, before any await.
SubmitRegister(p) ==
  /\ pc[p] = "idle"
  /\ \E r \in RegisterRequests :
       /\ req' = [req EXCEPT ![p] = r]
       /\ IF ValidatePassword(r.password) # "Ok"
          THEN Return(p, ValidatePassword(r.password))
          ELSE pc' = [pc EXCEPT ![p] = "rg_username"] /\ UNCHANGED result
  /\ UNCHANGED <<wallets, transactions, balance0, rowLock, retry_of, local, tx>>
  /\ UNCHANGED <<entityVars, registryVars, limiterVars>>

\* PostgresUserRepository::username_exists (user.rs:144-154).
UsernameExists(username) == \E u \in users : u.username = username

\* PostgresUserRepository::email_exists (user.rs:156-166).
EmailExists(email) == \E u \in users : u.email = email

\* Lines 38-41: username_exists.
CheckUsername(p) ==
  /\ pc[p] = "rg_username"
  /\ IF UsernameExists(req[p].username) THEN Return(p, "Conflict")
     ELSE pc' = [pc EXCEPT ![p] = "rg_email"] /\ UNCHANGED result
  /\ UNCHANGED <<wallets, transactions, balance0, rowLock, req, retry_of, local, tx>>
  /\ UNCHANGED <<entityVars, registryVars, limiterVars>>

\* The User that User::new builds for request p; its fresh id is p.
NewUser(p) == [id |-> p, username |-> req[p].username, email |-> req[p].email]

\* Lines 43-69: email_exists, hash_password, User::new.
CheckEmail(p) ==
  /\ pc[p] = "rg_email"
  /\ IF EmailExists(req[p].email) THEN Return(p, "Conflict") /\ UNCHANGED local
     ELSE IF UserNewError(req[p]) # "Ok"
          THEN Return(p, UserNewError(req[p])) /\ UNCHANGED local
     ELSE /\ local' = [local EXCEPT ![p].user = Some(NewUser(p))]
          /\ pc' = [pc EXCEPT ![p] = "rg_create_user"]
          /\ UNCHANGED result
  /\ UNCHANGED <<wallets, transactions, balance0, rowLock, req, retry_of, tx>>
  /\ UNCHANGED <<entityVars, registryVars, limiterVars>>

\* Line 70: user_repo.create, an INSERT executed on the pool: it is committed
\* when the call returns.
CreateUser(p) ==
  /\ pc[p] = "rg_create_user"
  /\ users' = users \cup {Unwrap(local[p].user)}
  /\ pc' = [pc EXCEPT ![p] = "rg_create_wallet"]
  /\ UNCHANGED <<wallets, transactions, balance0, rowLock, req, retry_of, local, tx,
                 result, wallet_rows>>
  /\ UNCHANGED <<entityVars, limiterVars>>

\* The row PostgresWalletRepository::create binds for Wallet::new(user_id,
\* "NGN", no PIN); the wallet's fresh id is that of the request.
CreatedWalletRow(id, user_id) ==
  [id |-> id, user_id |-> user_id, balance |-> NewWallet.balance,
   status |-> StatusToColumn(NewWallet.status), pin_hash |-> NewWallet.pin_hash]

\* Lines 72-99: Wallet::new, wallet_repo.create (a second INSERT on the pool),
\* the token pair, 201 Created.
CreateWallet(p) ==
  /\ pc[p] = "rg_create_wallet"
  /\ wallet_rows' = wallet_rows \cup {CreatedWalletRow(p, Unwrap(local[p].user).id)}
  /\ Return(p, "Ok")
  /\ UNCHANGED <<wallets, transactions, balance0, rowLock, req, retry_of, local, tx,
                 users>>
  /\ UNCHANGED <<entityVars, limiterVars>>

RegisterStep(p) ==
  \/ SubmitRegister(p)
  \/ CheckUsername(p)
  \/ CheckEmail(p)
  \/ CreateUser(p)
  \/ CreateWallet(p)
  \/ StorageError(p)

NextRegister == \E p \in Procs : RegisterStep(p)

\* Concurrent registrations.
SpecRegister == InitEntityRun /\ [][NextRegister]_vars

\* PostgresWalletRepository::find_by_user_id (wallet.rs:113-123) on the rows
\* registrations have inserted: the rows SELECT * FROM wallets WHERE
\* user_id = $1 matches, of which fetch_optional returns one.
FindByUserId(rows, user_id) == {w \in rows : w.user_id = user_id}

\* Wallets created by registrations, and Wallet::new called on its own.
NextWalletCreation ==
  \/ NextRegister
  \/ WalletNew

SpecWalletCreation == InitEntityRun /\ [][NextWalletCreation]_vars

----------------------------------------------------------------------------
(* calculate_retry_after, src/src/api/rate_limit.rs:98-102 *)

\* Largest attempt the calls are made with (the parameter is a u32).
MaxAttempt == 100

\* Width of u64 in bits.
U64Bits == 64

\* The cap of the backoff, in seconds (rate_limit.rs:100).
BackoffCap == 300

Min(a, b) == IF a < b THEN a ELSE b

\* Largest exponent whose power of two is computed exactly here.
MaxExactExponent == 30

\* 2u64.pow(attempt).min(300) for attempt < 64, where the power fits u64:
\* beyond 2^30 the power, still below 2^64, is more than the cap.
CappedPow2(attempt) ==
  IF attempt <= MaxExactExponent THEN Min(2^attempt, BackoffCap) ELSE BackoffCap

\* 2^attempt modulo 2^64 for attempt >= 64: every bit of the power lies beyond
\* bit 63.
WrappedPow2(attempt) == 0

\* What a call can produce.  For attempt >= 64 the power overflows u64: with
\* overflow checks (debug builds) pow panics, without them (release builds)
\* it wraps.
RetryAfterOutcomes(attempt) ==
  IF attempt < U64Bits
  THEN {[panicked |-> FALSE, value |-> CappedPow2(attempt)]}
  ELSE {[panicked |-> TRUE, value |-> 0],
        [panicked |-> FALSE, value |-> Min(WrappedPow2(attempt), BackoffCap)]}

\* calculate_retry_after(attempt).
CalculateRetryAfter ==
  /\ \E attempt \in 0..MaxAttempt :
       \E outcome \in RetryAfterOutcomes(attempt) :
         retry' = [called |-> TRUE, attempt |-> attempt,
                   panicked |-> outcome.panicked, value |-> outcome.value]
  /\ UNCHANGED <<ledgerVars, entityVars, registryVars>>

\* Calls of calculate_retry_after.
SpecRetryAfter == InitEntityRun /\ [][CalculateRetryAfter]_vars

----------------------------------------------------------------------------
(* Properties *)

RECURSIVE SumOver(_, _)
\* The sum of f over the set S.
SumOver(S, f) ==
  IF S = {} THEN 0
  ELSE LET x == CHOOSE y \in S : TRUE IN f[x] + SumOver(S \ {x}, f)

\* The sum of the stored balances.
TotalBalance(table) == SumOver(WalletIds, [w \in WalletIds |-> table[w].balance])

\* The stored record of request p, if any.
Stored(p) == \E t \in transactions : t.id = p

\* The amounts of the stored Completed records to and from wallet w.
CreditedTo(w) ==
  LET S == {t \in transactions : t.status = "Completed" /\ t.receiver_wallet_id = w}
  IN SumOver(S, [t \in S |-> t.amount])

DebitedFrom(w) ==
  LET S == {t \in transactions : t.status = "Completed" /\ t.sender_wallet_id = w}
  IN SumOver(S, [t \in S |-> t.amount])

\* The steps of process_transfer between pool.begin() and tx.commit().
UnitOfWorkSteps ==
  {"lock_sender", "lock_receiver", "debit", "credit", "insert", "commit"}

IsTransfer(p) == req[p].kind = "transfer"

\* C1: with any number of concurrent transfer attempts, in any interleaving and
\* whatever their outcome, the sum of the stored wallet balances is the sum the
\* run started with.
Conservation == TotalBalance(wallets) = SumOver(WalletIds, balance0)

\* A transfer has committed and another attempt was aborted by a storage error.
ConservationWitness ==
  /\ transactions # {}
  /\ \E p \in Procs : result[p] = "DatabaseError" /\ ~Stored(p)
  /\ \E w \in WalletIds : wallets[w].balance # balance0[w]

\* Two requests draw on the same wallet of balance B, each for more than B/2
\* and at most B, with the right PIN, between active wallets, and nothing is
\* paid into that wallet.
Rivals(p, q, w) ==
  /\ p # q /\ IsTransfer(p) /\ IsTransfer(q)
  /\ local[p].sender = w /\ local[q].sender = w
  /\ local[p].receiver # NoId /\ local[q].receiver # NoId
  /\ 2 * Amount(p) > balance0[w] /\ 2 * Amount(q) > balance0[w]
  /\ Amount(p) <= balance0[w] /\ Amount(q) <= balance0[w]
  /\ \A v \in WalletIds : wallets[v].status = "active"
  /\ CreditedTo(w) = 0

\* C2: of two concurrent transfers from a wallet of balance B, each for more
\* than B/2, at most one commits; the other ends with InsufficientFunds (or
\* with the storage error that aborted it); the sender is left with B minus the
\* committed amount; and no stored balance is ever negative.
NoDoubleSpend ==
  /\ \A w \in WalletIds : wallets[w].balance >= 0
  /\ \A w \in WalletIds : CreditedTo(w) = 0 => DebitedFrom(w) <= balance0[w]
  /\ \A p, q \in Procs : \A w \in WalletIds :
       Rivals(p, q, w) /\ Stored(p) =>
         /\ ~Stored(q)
         /\ pc[q] = "done" => result[q] \in {"InsufficientFunds", "DatabaseError"}
         /\ DebitedFrom(w) = Amount(p) => wallets[w].balance = balance0[w] - Amount(p)

\* One of two rival transfers has committed and the other, which had passed the
\* handler's balance check, was refused under lock.
NoDoubleSpendWitness ==
  \E p, q \in Procs : \E w \in WalletIds :
    /\ Rivals(p, q, w) /\ Stored(p)
    /\ local[q].transaction # None
    /\ result[q] = "InsufficientFunds"
    /\ wallets[w].balance = balance0[w] - Amount(p)

\* A step of request p inside its unit of work either leaves the stored
\* wallets and records as they were, or is the commit that applies the debit,
\* the credit and the record together.
AllOrNothingStep(p) ==
  pc[p] \in UnitOfWorkSteps /\ pc'[p] # pc[p] =>
    IF pc'[p] = "done"
    THEN /\ wallets' = wallets
         /\ transactions' = transactions
         /\ ~(\E t \in transactions' : t.id = p)
         /\ \A w \in WalletIds : rowLock'[w] # Some(p)
    ELSE \/ wallets' = wallets /\ transactions' = transactions
         \/ /\ pc[p] = "commit"
            /\ wallets'[local[p].sender].balance =
                 wallets[local[p].sender].balance - TheTransaction(p).amount
            /\ wallets'[local[p].receiver].balance =
                 wallets[local[p].receiver].balance + TheTransaction(p).amount
            /\ \E t \in transactions' \ transactions : t.id = p

\* C3: a process_transfer that fails after its unit of work has begun persists
\* none of the debit, the credit and the record; the three are only ever
\* persisted together; and no stored record is Pending.
AtomicTransfer ==
  /\ [][\A p \in Procs : AllOrNothingStep(p)]_vars
  /\ [](\A t \in transactions : t.status # "Pending")

\* A unit of work was refused under its row locks (the only place PaymentError
\* comes from) and another was abandoned on a storage error; nothing is stored
\* and the balances are those the run started with.
AtomicTransferWitness ==
  \E p, q \in Procs :
    /\ IsTransfer(p) /\ pc[p] = "done" /\ result[p] = "PaymentError"
    /\ IsTransfer(q) /\ pc[q] = "done" /\ result[q] = "DatabaseError"
    /\ local[p].transaction # None /\ local[q].transaction # None
    /\ transactions = {}
    /\ \A w \in WalletIds : wallets[w].balance = balance0[w]

\* C4: whenever create_transfer returns an error, nothing of the request is
\* stored: no record of it, and through it no change of a balance.
FailClosed ==
  \A p \in Procs :
    IsTransfer(p) /\ pc[p] = "done" /\ result[p] # "Ok" => ~Stored(p)

\* C5: no reachable state has two transfers each holding a wallet's row lock
\* and waiting for the one the other holds.
DeadlockFreedom == ~CircularWait

\* C6: a request submitted again never makes a second money movement: of a
\* request and its retry at most one has a stored record.
Idempotency ==
  \A p \in Procs :
    retry_of[p] # None => ~(Stored(p) /\ Stored(Unwrap(retry_of[p])))

\* C7: the commit of a transfer takes exactly the amount from the sender's
\* stored balance and adds exactly the amount to the receiver's, and the record
\* returned and stored is Completed, of type Transfer, with the two wallet ids
\* and the amount of the request.
TransferEffectStep(p) ==
  pc[p] = "commit" /\ pc'[p] = "sender_user" =>
    LET s == local[p].sender
        r == local[p].receiver
        t == Unwrap(local'[p].transaction)
    IN /\ wallets'[s].balance = wallets[s].balance - Amount(p)
       /\ wallets'[r].balance = wallets[r].balance + Amount(p)
       /\ t \in transactions'
       /\ t.status = "Completed" /\ t.transaction_type = "Transfer"
       /\ t.sender_wallet_id = WalletOfUser(req[p].user)
       /\ t.receiver_wallet_id = WalletOfUser(req[p].receiver_user_id)
       /\ t.amount = Amount(p) /\ t.amount > 0

ExactTransfer ==
  /\ [][\A p \in Procs : TransferEffectStep(p)]_vars
  /\ [](\A p \in Procs : IsTransfer(p) /\ result[p] = "Ok" =>
          /\ local[p].transaction # None
          /\ TheTransaction(p).status = "Completed"
          /\ TheTransaction(p) \in transactions)

\* Scenario A: A = 10, B = 0, one transfer of 3 from A to B has succeeded:
\* A = 7, B = 3, Completed.
ExactTransferWitness ==
  /\ balance0["A"] = 10 /\ balance0["B"] = 0
  /\ wallets["A"].balance = 7 /\ wallets["B"].balance = 3
  /\ \E p \in Procs :
       /\ result[p] = "Ok" /\ Amount(p) = 3
       /\ TheTransaction(p).status = "Completed"
       /\ transactions = {TheTransaction(p)}

\* C8: the set-PIN operation leaves every stored balance what the transfers
\* alone produced: the initial balance plus the Completed transfers in, minus
\* those out.
BalancesFromTransfersOnly ==
  \A w \in WalletIds :
    wallets[w].balance = balance0[w] + CreditedTo(w) - DebitedFrom(w)

\* C9: after every credit, debit, suspend, lock and activate, with any amount,
\* the Wallet's balance is not negative.
NoNegativeBalance == wal.balance >= 0

\* A debit larger than the balance was refused, after credits and debits that
\* went through.
NoNegativeBalanceWitness ==
  /\ wret = "InsufficientFunds"
  /\ wal.balance > 0 /\ wal.balance < 3
  /\ wal.status = "Active"

TerminalStatuses == {"Completed", "Failed", "Cancelled"}

\* C10: once a Transaction is Completed, Failed or Cancelled, no complete(),
\* fail(reason) or cancel() changes its status.
TerminalIsAbsorbing ==
  [][Constructed /\ trec.status \in TerminalStatuses => trec'.status = trec.status]_vars

\* A call on a constructed Transaction returned an error.
Rejected == Constructed /\ tret' # "Ok"

\* C11: complete() and cancel() return an error whenever the status is not
\* Pending, and from Pending yield Completed and Cancelled; fail() returns an
\* error whenever the status is Completed; a call that returns an error leaves
\* status and description as they were.
TransactionGuards ==
  [][/\ TransactionComplete =>
          IF trec.status # "Pending" THEN tret' = "PaymentError"
          ELSE tret' = "Ok" /\ trec'.status = "Completed"
     /\ TransactionCancel =>
          IF trec.status # "Pending" THEN tret' = "PaymentError"
          ELSE tret' = "Ok" /\ trec'.status = "Cancelled"
     /\ TransactionFail => (trec.status = "Completed" => tret' = "PaymentError")
     /\ Rejected => trec'.status = trec.status /\ trec'.description = trec.description
    ]_vars

\* A call was refused on a Transaction that an earlier complete() had taken
\* from Pending to Completed, and its description is the one it was built with.
TransactionGuardsWitness ==
  /\ tret = "PaymentError"
  /\ trec.status = "Completed"
  /\ trec.description = Some(500)

\* The stored PIN of the sender of request p is another one than the request's.
PinMismatch(p) ==
  LET row == wallets[WalletOfUser(req[p].user)] IN
    row.pin_hash # None /\ Unwrap(row.pin_hash).digest # req[p].pin

\* The sender of request p has no PIN configured.
NoPinSet(p) == wallets[WalletOfUser(req[p].user)].pin_hash = None

\* The handler's look at the sender wallet of request p, when the wallet exists.
PinOutcomeStep(p) ==
  FindSenderWallet(p) /\ WalletOfUser(req[p].user) # NoId =>
    /\ PinMismatch(p) => pc'[p] = "done" /\ result'[p] = "AuthenticationError"
    /\ NoPinSet(p) => pc'[p] = "done" /\ result'[p] = "ValidationError"
    /\ PinMismatch(p) \/ NoPinSet(p) =>
         /\ wallets' = wallets /\ transactions' = transactions
         /\ rowLock' = rowLock /\ tx'[p] = NoTx
         /\ local'[p].transaction = None

\* C12: a transfer whose PIN does not match the sender wallet's stored PIN is
\* rejected with AuthenticationError, one from a wallet with no PIN with
\* ValidationError; in both cases no unit of work is started, no record is
\* built or stored, and the stored balances stay as they are.
PinOutcome ==
  /\ [][\A p \in Procs : PinOutcomeStep(p)]_vars
  /\ [](\A p \in Procs :
          IsTransfer(p) /\ result[p] = "AuthenticationError" =>
            ~Stored(p) /\ local[p].transaction = None /\ tx[p] = NoTx)

\* Scenario B: A = 10 with PIN 1234, B = 0 with no PIN; alice's transfer with
\* PIN 0000 ended with AuthenticationError, bob's with ValidationError, and
\* A = 10, B = 0.
PinOutcomeWitness ==
  \E p, q \in Procs :
    /\ IsTransfer(p) /\ req[p].user = "alice" /\ req[p].pin = Pin0000
    /\ result[p] = "AuthenticationError"
    /\ IsTransfer(q) /\ req[q].user = "bob" /\ Amount(q) > 0
    /\ wallets["B"].pin_hash = None /\ result[q] = "ValidationError"
    /\ wallets["A"].balance = 10 /\ wallets["B"].balance = 0
    /\ transactions = {}

\* Request p is a transfer with a positive amount and the sender's PIN, from a
\* sender wallet that is not active to another wallet that exists.
FromInactiveSender(p) ==
  /\ IsTransfer(p)
  /\ WalletOfUser(req[p].user) # NoId
  /\ WalletOfUser(req[p].receiver_user_id) \notin {NoId, WalletOfUser(req[p].user)}
  /\ DecimalFromStr(req[p].amount).ok /\ Amount(p) > 0
  /\ req[p].description = None
  /\ LET row == wallets[WalletOfUser(req[p].user)] IN
       /\ row.status # "active"
       /\ row.pin_hash # None /\ Unwrap(row.pin_hash).digest = req[p].pin

\* C13: a transfer from a sender wallet that is not Active, with a positive
\* amount and the correct PIN, ends with PaymentError whatever the sender's
\* balance (or with the storage error that aborted it), never with
\* InsufficientFunds.
InactiveSenderIsPaymentError ==
  \A p \in Procs :
    FromInactiveSender(p) /\ pc[p] = "done" =>
      result[p] \in {"PaymentError", "DatabaseError"}

\* The receiver of request p resolves to the sender's own wallet.
SelfTransfer(p) ==
  /\ IsTransfer(p)
  /\ WalletOfUser(req[p].user) # NoId
  /\ WalletOfUser(req[p].receiver_user_id) = WalletOfUser(req[p].user)

\* The handler's look at the receiver wallet of a self-transfer.
SelfTransferStep(p) ==
  FindReceiverWallet(p) /\ SelfTransfer(p) =>
    /\ pc'[p] = "done" /\ result'[p] = "ValidationError"
    /\ local'[p].transaction = None
    /\ wallets' = wallets /\ transactions' = transactions /\ rowLock' = rowLock

\* C14: a transfer whose receiver resolves to the sender's own wallet, past
\* the PIN and balance checks, is rejected with ValidationError; at no moment
\* has such a request a record built or stored, or a row lock.
SelfTransferRejected ==
  /\ [][\A p \in Procs : SelfTransferStep(p)]_vars
  /\ [](\A p \in Procs :
          SelfTransfer(p) =>
            /\ local[p].transaction = None /\ ~Stored(p) /\ tx[p] = NoTx
            /\ \A w \in WalletIds : rowLock[w] # Some(p))

\* Scenario D: alice, with the right PIN and 3 of her 10, names herself as the
\* receiver: ValidationError after both wallet lookups, and nothing stored.
SelfTransferRejectedWitness ==
  \E p \in Procs :
    /\ SelfTransfer(p) /\ req[p].user = "alice" /\ Amount(p) = 3
    /\ req[p].pin = Pin1234 /\ wallets["A"].balance = 10
    /\ local[p].sender = "A"
    /\ pc[p] = "done" /\ result[p] = "ValidationError"
    /\ transactions = {}

\* The INSERT of request p meets a stored record with its reference.
DuplicateReferenceStep(p) ==
  InsertRecord(p) /\ ReferenceTaken(TheTransaction(p).reference) =>
    /\ pc'[p] = "done" /\ result'[p] = "Conflict"
    /\ wallets' = wallets /\ transactions' = transactions

\* C15: a transfer whose record carries the reference of a stored record
\* persists no debit, credit or record and fails with Conflict, not with
\* DatabaseError; at most one stored record carries a given reference.
DuplicateReferenceIsConflict ==
  /\ [][\A p \in Procs : DuplicateReferenceStep(p)]_vars
  /\ [](\A t, u \in transactions : t.reference = u.reference => t = u)

\* What credit(a) and debit(a) must return on the wallet as it is.
ExpectedCredit(a) ==
  IF a <= 0 THEN "ValidationError"
  ELSE IF wal.status # "Active" THEN "PaymentError"
  ELSE "Ok"

ExpectedDebit(a) ==
  IF ExpectedCredit(a) # "Ok" THEN ExpectedCredit(a)
  ELSE IF wal.balance < a THEN "InsufficientFunds"
  ELSE "Ok"

\* C16: credit(a) and debit(a) reject a <= 0 with ValidationError, otherwise a
\* wallet that is not Active with PaymentError, otherwise a debit beyond the
\* balance with InsufficientFunds; a rejected call leaves balance and status
\* as they were, and a successful one changes the balance by exactly a.
CreditDebitContract ==
  [][\A a \in EntityAmounts :
       /\ Credit(a) =>
            /\ wret' = ExpectedCredit(a)
            /\ wal'.status = wal.status
            /\ wal'.balance = IF wret' = "Ok" THEN wal.balance + a ELSE wal.balance
       /\ Debit(a) =>
            /\ wret' = ExpectedDebit(a)
            /\ wal'.status = wal.status
            /\ wal'.balance = IF wret' = "Ok" THEN wal.balance - a ELSE wal.balance
    ]_vars

\* A call was refused with PaymentError on a wallet that is not Active and
\* holds what earlier credits and debits left in it.
CreditDebitContractWitness ==
  /\ wret = "PaymentError"
  /\ wal.status = "Locked"
  /\ wal.balance = 2

\* The stored wallets of user u.
WalletsOf(u) == {w \in wallet_rows : w.user_id = u.id}

\* C17: once the registration that stored a user has returned, whatever it
\* returned, the user has exactly one wallet, and the wallet is owned by that
\* user.
OneWalletPerUser ==
  \A u \in users : pc[u.id] = "done" => Cardinality(WalletsOf(u)) = 1

\* The UPDATE of a debit_balance call finds a balance that covers its amount.
CoveredDebitStep(p) ==
  DebitUpdate(p) => wallets[req[p].wallet_id].balance >= req[p].amount

\* C18: in any interleaving of concurrent debit_balance calls, every call that
\* returns Ok decrements a balance that is at least its amount at that moment,
\* and the stored balance is never negative.
DebitBalanceAtomic ==
  /\ [][\A p \in Procs : CoveredDebitStep(p)]_vars
  /\ [](\A w \in WalletIds : wallets[w].balance >= 0)

\* The fields of a Transaction that are fixed at construction.
Identity(t) ==
  <<t.id, t.reference, t.sender_wallet_id, t.receiver_wallet_id, t.currency>>

\* C19: the reference of a Transaction, with its id, wallet ids and currency,
\* is the one given at construction: complete(), fail() and cancel() leave
\* them unchanged on the value, and update_transaction leaves them unchanged
\* on the stored row.
ReferenceImmutable ==
  [][Constructed =>
       /\ Identity(trec') = Identity(trec)
       /\ \A t \in transactions :
            \E u \in transactions' : Identity(u) = Identity(t)
    ]_vars

\* The stored row has been taken to Failed by update_transaction, with the
\* description fail() built, and carries the reference of construction.
ReferenceImmutableWitness ==
  /\ trec.status = "Failed"
  /\ \E t \in transactions :
       /\ t.status = "Failed" /\ t.description = Some(18)
       /\ Identity(t) = Identity(trec)
  /\ tret = "Ok"

\* The wallet ids of a request fit its type.
ShapeFits(request) ==
  CASE request.transaction_type = "Transfer" ->
         /\ request.sender_wallet_id # NoId /\ request.receiver_wallet_id # NoId
         /\ request.sender_wallet_id # request.receiver_wallet_id
    [] request.transaction_type = "Deposit" ->
         request.receiver_wallet_id # NoId /\ request.sender_wallet_id = NoId
    [] request.transaction_type = "Withdrawal" ->
         request.sender_wallet_id # NoId /\ request.receiver_wallet_id = NoId

\* What the construction contract accepts.
Constructible(request) ==
  /\ request.amount > 0
  /\ request.currency = "NGN"
  /\ request.description = None \/ Unwrap(request.description) <= 500
  /\ ShapeFits(request)

\* C20: Transaction::new succeeds exactly when the amount is positive, the
\* currency is NGN, the description is within 500 and the wallet ids fit the
\* type; what it builds is Pending and carries the request's fields; every
\* other request is rejected with ValidationError.
ConstructionContract ==
  [][\A request \in CreateTransactionRequests :
       TransactionNewCall(request) =>
         IF Constructible(request)
         THEN /\ tret' = "Ok"
              /\ trec'.status = "Pending"
              /\ trec'.amount = request.amount
              /\ trec'.transaction_type = request.transaction_type
              /\ trec'.sender_wallet_id = request.sender_wallet_id
              /\ trec'.receiver_wallet_id = request.receiver_wallet_id
         ELSE tret' = "ValidationError" /\ trec' = trec
    ]_vars

\* A Deposit with a description of exactly 500 has been constructed: Pending,
\* with a receiver and no sender.
ConstructionContractWitness ==
  /\ tret = "Ok"
  /\ trec.transaction_type = "Deposit" /\ trec.status = "Pending"
  /\ trec.sender_wallet_id = NoId /\ trec.receiver_wallet_id = "B"
  /\ trec.description = Some(500)
  /\ transactions = {}

\* C21: after set_pin(p) succeeds, verify_pin(c) returns true exactly when
\* c = p, so a PIN that verified before a set_pin of another PIN verifies no
\* longer; verify_pin on a wallet with no PIN returns ValidationError, not
\* false.
PinRoundTrip ==
  [][/\ \A p \in PinInputs :
          SetPin(p) /\ wret' = "Ok" =>
            \A c \in PinInputs :
              VerifyPinOutcome(wal', c) = IF c = p THEN "true" ELSE "false"
     /\ \A c \in PinInputs :
          VerifyPinCall(c) =>
            /\ wal.pin_hash = None => wret' = "ValidationError"
            /\ wal.pin_hash # None => wret' \in {"true", "false"}
    ]_vars

\* PIN 1234 was replaced by 0000 and a verify_pin call has then answered
\* false: the old PIN is the only candidate that verified before.
PinRoundTripWitness ==
  /\ wret = "false"
  /\ wal.pin_hash # None
  /\ VerifyPinOutcome(wal, Pin0000) = "true"
  /\ VerifyPinOutcome(wal, Pin1234) = "false"
  /\ wal.balance = 3

\* A text made of exactly four ASCII digits.
FourDigits(pin) == Len(pin) = 4 /\ \A i \in 1..4 : pin[i] \in AsciiDigits

\* C22: Wallet::new with a PIN and set_pin accept exactly the texts of four
\* ASCII digits and reject every other with ValidationError; a set-PIN
\* request whose confirmation differs is rejected with ValidationError before
\* the wallet is read; a rejected call or request leaves the pin_hash, of the
\* Wallet or of the stored row, as it was.
PinValidation ==
  [][/\ \A pin \in PinInputs :
          SetPin(pin) =>
            IF FourDigits(pin) THEN wret' = "Ok"
            ELSE wret' = "ValidationError" /\ wal'.pin_hash = wal.pin_hash
     /\ \A request \in CreateWalletRequests :
          WalletNewCall(request) /\ request.currency = "NGN" /\ request.pin # None =>
            IF FourDigits(Unwrap(request.pin)) THEN wret' = "Ok"
            ELSE wret' = "ValidationError" /\ wal' = wal
     /\ \A p \in Procs :
          /\ SubmitSetPin(p) /\ req'[p].pins[1] # req'[p].pins[2] =>
               pc'[p] = "done" /\ result'[p] = "ValidationError"
          /\ SetPinFindWallet(p) /\ WalletOfUser(req[p].user) # NoId =>
               IF FourDigits(req[p].pins[1]) THEN pc'[p] = "sp_update"
               ELSE pc'[p] = "done" /\ result'[p] = "ValidationError"
          /\ SetPinStep(p) /\ result'[p] \notin {"none", "Ok"} => wallets' = wallets
    ]_vars

\* A set-PIN request with a confirmation that differs and one with a PIN that
\* has a letter were both rejected, wallet A keeps the hash of 1234, and a
\* Wallet built with PIN 0000 has refused a set_pin.
PinValidationWitness ==
  /\ \E p, q \in Procs :
       /\ req[p].kind = "set_pin" /\ req[p].pins = <<Pin0000, Pin1234>>
       /\ result[p] = "ValidationError"
       /\ req[q].kind = "set_pin" /\ req[q].pins = <<PinAlpha, PinAlpha>>
       /\ req[q].user = "alice" /\ result[q] = "ValidationError"
  /\ wallets["A"].pin_hash = Some(BcryptHash(Pin1234))
  /\ wret = "ValidationError"
  /\ wal.pin_hash = Some(BcryptHash(Pin0000))

\* C23: Wallet::new for a user, with currency NGN and no PIN, returns a
\* wallet of that user with balance zero, status Active and no pin_hash; once
\* the wallet is stored, the lookup by that user id returns it; another
\* currency is rejected with ValidationError and no wallet is built or stored.
WalletCreation ==
  [][/\ \A request \in CreateWalletRequests :
          WalletNewCall(request) =>
            /\ request.currency = "NGN" /\ request.pin = None =>
                 /\ wret' = "Ok"
                 /\ wal'.user_id = request.user_id /\ wal'.balance = 0
                 /\ wal'.status = "Active" /\ wal'.pin_hash = None
            /\ request.currency # "NGN" =>
                 wret' = "ValidationError" /\ wal' = wal /\ wallet_rows' = wallet_rows
     /\ \A p \in Procs :
          CreateWallet(p) =>
            \E w \in wallet_rows' :
              /\ FindByUserId(wallet_rows', Unwrap(local[p].user).id) = {w}
              /\ w.user_id = Unwrap(local[p].user).id /\ w.balance = 0
              /\ w.status = "active" /\ w.pin_hash = None
    ]_vars

\* Two registrations have each stored a wallet for their user, and a
\* Wallet::new in another currency was refused.
WalletCreationWitness ==
  /\ \A p \in Procs :
       result[p] = "Ok" /\ Cardinality(FindByUserId(wallet_rows, p)) = 1
  /\ Cardinality(users) = NumProcs
  /\ wret = "ValidationError" /\ wal = NewWallet

\* min(2^attempt, 300): the powers up to 2^8 = 256, and 300 from attempt 9 on.
ExpectedRetryAfter(attempt) ==
  IF attempt >= 9 THEN 300 ELSE 2^attempt

\* C24: calculate_retry_after(attempt) returns min(2^attempt, 300) for every
\* attempt: 1, 2, 4, ... 256 for 0..8 and 300 from 9 on, attempt 100
\* included, with no panic and no wrap-around.
RetryAfterIsCappedPower ==
  retry.called =>
    ~retry.panicked /\ retry.value = ExpectedRetryAfter(retry.attempt)

\* Uuid ordering of the two wallet ids.
IdBefore(a, b) == a = "A" /\ b = "B"

\* C25: the first row lock a transfer requests is on the wallet with the
\* smaller id, whichever of the two is the sender: a transfer A->B and a
\* transfer B->A both request the lock on A first.
CanonicalLockOrder ==
  \A p \in Procs :
    pc[p] = "lock_sender" => ~IdBefore(local[p].receiver, local[p].sender)

\* What the rows locked by request p allow: both wallets active and the
\* sender's balance not below the amount.
LockedRowsAllow(p) ==
  /\ wallets[local[p].sender].status = "active"
  /\ wallets[local[p].receiver].status = "active"
  /\ wallets[local[p].sender].balance >= Amount(p)

\* Request p is refused under its row locks: an error the caller can tell
\* from success, nothing written, its unit of work and its locks gone.
RefusedUnderLock(p) ==
  /\ pc'[p] = "done"
  /\ result'[p] \in {"InsufficientFunds", "PaymentError"}
  /\ wallets' = wallets /\ transactions' = transactions
  /\ tx'[p] = NoTx
  /\ \A w \in WalletIds : rowLock'[w] # Some(p)

\* C26: process_transfer commits only while it holds both row locks and the
\* locked rows show an active sender, an active receiver and a sender balance
\* of at least the amount; when the sender row it locks is inactive or no
\* longer covers the amount, or the receiver row it locks is inactive,
\* whatever the handler read before, the transfer is refused with
\* InsufficientFunds or PaymentError and rolled back.
RevalidationUnderLock ==
  [][\A p \in Procs :
       /\ CommitTx(p) =>
            /\ rowLock[local[p].sender] = Some(p)
            /\ rowLock[local[p].receiver] = Some(p)
            /\ LockedRowsAllow(p)
       /\ LockSender(p) =>
            LET row == wallets[local[p].sender] IN
              row.status # "active" \/ row.balance < Amount(p) => RefusedUnderLock(p)
       /\ LockReceiver(p) =>
            (wallets[local[p].receiver].status # "active" => RefusedUnderLock(p))
    ]_vars

\* Two transfers of 6 from A passed the handler's check against the balance
\* of 10; one has committed and the other, finding 4 under its lock, was
\* refused.
RevalidationUnderLockWitness ==
  \E p, q \in Procs :
    /\ p # q /\ IsTransfer(p) /\ IsTransfer(q)
    /\ result[q] = "Ok" /\ local[q].sender = "A" /\ Amount(q) = 6
    /\ result[p] = "InsufficientFunds" /\ local[p].sender = "A" /\ Amount(p) = 6
    /\ local[p].transaction # None
    /\ wallets["A"].balance = 4 /\ balance0["A"] = 10
    /\ Cardinality(transactions) = 1

\* The steps of create_transfer before process_transfer is called.
PreLockSteps == {"idle", "find_sender", "find_receiver"}

\* Request p has begun no unit of work: it has built no record to hand to
\* process_transfer, holds no row lock and has stored nothing.
NeverBegun(p) ==
  /\ local[p].transaction = None
  /\ tx[p] = NoTx
  /\ \A w \in WalletIds : rowLock[w] # Some(p)
  /\ ~Stored(p)

\* The handler answers request p with the error and touches nothing.
RejectedPreLock(p, error) ==
  /\ pc'[p] = "done" /\ result'[p] = error
  /\ local'[p].transaction = None
  /\ wallets' = wallets /\ transactions' = transactions
  /\ rowLock' = rowLock /\ tx' = tx

\* The handler's reads for request p, each check met with the earlier ones
\* passed.
PreLockStep(p) ==
  /\ FindSenderWallet(p) =>
       LET w == WalletOfUser(req[p].user) IN
         /\ w = NoId => RejectedPreLock(p, "NotFound")
         /\ w # NoId =>
              /\ PinMismatch(p) => RejectedPreLock(p, "AuthenticationError")
              /\ ~PinMismatch(p) /\ ~NoPinSet(p) /\ wallets[w].balance < Amount(p) =>
                   RejectedPreLock(p, "InsufficientFunds")
  /\ FindReceiverWallet(p) =>
       (WalletOfUser(req[p].receiver_user_id) = NoId => RejectedPreLock(p, "NotFound"))

\* C27: a transfer whose amount is not positive ends with ValidationError; one
\* whose PIN is not the stored one with AuthenticationError; one whose amount
\* exceeds the balance the handler reads with InsufficientFunds; one whose
\* sender or receiver has no wallet with NotFound; and each of these ends
\* before the unit of work begins: the request never asks for a row lock and
\* no record of it is stored.
PreLockRejection ==
  /\ [](\A p \in Procs :
          IsTransfer(p) =>
            /\ pc[p] \in PreLockSteps => NeverBegun(p)
            /\ Amount(p) <= 0 =>
                 pc[p] = "done" /\ result[p] = "ValidationError" /\ NeverBegun(p)
            /\ pc[p] = "done"
               /\ result[p] \in {"ValidationError", "AuthenticationError", "NotFound"} =>
                 NeverBegun(p))
  /\ [][\A p \in Procs : PreLockStep(p)]_vars

\* Scenario C, with 15 against a balance of 10: InsufficientFunds from the
\* handler; and a transfer with another PIN than the stored one:
\* AuthenticationError. Neither began a unit of work, the tables are as they
\* were.
PreLockRejectionWitness ==
  \E p, q \in Procs :
    /\ p # q /\ IsTransfer(p) /\ IsTransfer(q)
    /\ result[p] = "InsufficientFunds" /\ Amount(p) = 15 /\ NeverBegun(p)
    /\ result[q] = "AuthenticationError" /\ req[q].pin = Pin0000 /\ NeverBegun(q)
    /\ transactions = {}
    /\ \A w \in WalletIds : wallets[w].balance = balance0[w]
    /\ wallets["A"].balance = 10

\* The total orders of the requests.
Orders == {o \in [1..NumProcs -> Procs] : \A i, j \in 1..NumProcs : o[i] = o[j] => i = j}

\* The tables the run started from: transfers change no status and no PIN.
TablesAtStart == [w \in WalletIds |-> [wallets[w] EXCEPT !.balance = balance0[w]]]

\* The references Transaction::new drew for the requests: the one of the
\* record a request has built, any for a request that was answered before.
ReferencesDrawn ==
  {refs \in [Procs -> References] :
     \A p \in Procs :
       local[p].transaction # None => refs[p] = TheTransaction(p).reference}

\* Every process has sent a transfer request and has its answer.
AllAnswered == \A p \in Procs : IsTransfer(p) /\ pc[p] = "done"

\* The stored tables and the answers are those of running the requests one
\* at a time in the order o, with the references refs.
SameAsSerial(o, refs) ==
  LET run == SerialRun(o, refs, TablesAtStart, {}) IN
    /\ run.wallets = wallets
    /\ run.transactions = transactions
    /\ \A i \in 1..NumProcs : run.result[i] = result[o[i]]

\* C28: when concurrent transfers have all been answered, the stored balances,
\* the stored Completed records and the answer of every attempt are those of
\* executing the same requests one at a time in some total order.
Serialization ==
  AllAnswered => \E o \in Orders : \E refs \in ReferencesDrawn : SameAsSerial(o, refs)

\* The stored balances, by wallet.
Balances(table) == [w \in WalletIds |-> table[w].balance]

\* The step stores the record t together with its debit and its credit, each
\* once.
AppliesOnce(t) ==
  /\ t \notin transactions
  /\ t.status = "Completed"
  /\ transactions' = transactions \cup {t}
  /\ Balances(wallets') =
       [Balances(wallets) EXCEPT ![t.sender_wallet_id] = @ - t.amount,
                                 ![t.receiver_wallet_id] = @ + t.amount]

\* C29: in every state the transfer and set-PIN requests reach, each stored
\* balance is the initial balance plus the amounts of the Completed records
\* naming the wallet as receiver minus those naming it as sender; and a step
\* that changes a stored balance or the stored records stores exactly one new
\* Completed record together with its debit and its credit.
LedgerConsistency ==
  /\ [](\A w \in WalletIds :
          Balances(wallets)[w] = balance0[w] + CreditedTo(w) - DebitedFrom(w))
  /\ [][Balances(wallets') # Balances(wallets) \/ transactions' # transactions =>
          \E t \in transactions' : AppliesOnce(t)]_vars

\* C30: the description of a constructed Transaction is never longer than the
\* 500 bytes Transaction::new allows, after any sequence of complete(),
\* fail(reason) and cancel(), whatever the reason.
BoundedDescription ==
  Constructed => LenOrEmpty(trec.description) <= 500

====
